---- MODULE Spec2Model ----
(***************************************************************************)
(* Model of backend/app/services/email.py: EmailService.send_email,         *)
(* EmailService.fetch_unseen_imap and EmailService.fetch_pop3.              *)
(*                                                                         *)
(* One call of the service is a process that walks through the protocol    *)
(* commands of its handler.  Every command that goes to the server has its *)
(* outcome picked by the environment (accepted, refused, raised), and is   *)
(* appended to `log` in the order the handler issues it.                    *)
(***************************************************************************)
EXTENDS Integers, Sequences, FiniteSets, TLC

\* cfg is the configuration of the service.  op .. server are the locals of the
\* call that is running (server is the handle of its session, 0 before the
\* connect).  sessions lists the sessions opened so far, each with the task
\* that opened it; cur is the running task and tasks holds the locals of the
\* tasks that are not running.
VARIABLES cfg, op, args, pc, log, exc, outcome, err, retval,
          msg, envelope, refused, listing, ids, pos, results,
          server, sessions, cur, tasks

vars == <<cfg, op, args, pc, log, exc, outcome, err, retval,
          msg, envelope, refused, listing, ids, pos, results,
          server, sessions, cur, tasks>>

(***************************************************************************)
(* Bounds of the model.                                                    *)
(***************************************************************************)
MaxLimit == 2
MaxListed == 3
MaxParts == 2

(***************************************************************************)
(* Values.                                                                 *)
(***************************************************************************)
None == "<None>"
NoErr == "<no exception>"

\* Python truthiness of an Optional[str]: None and "" are falsy.
Truthy(x) == x # None /\ x # ""

\* Python `a or b` on Optional[str].
PyOr(a, b) == IF Truthy(a) THEN a ELSE b

\* Optional[List[str]]: absent, or a list.
NoList == [present |-> FALSE, val |-> <<>>]
SomeList(s) == [present |-> TRUE, val |-> s]

\* Python `x or []` on an Optional[List[str]].
OrEmpty(x) == IF x.present /\ x.val # <<>> THEN x.val ELSE <<>>

\* Python `s[:n]`: a negative n counts from the end of the list.
PySliceTo(s, n) ==
    IF n >= 0
    THEN SubSeq(s, 1, IF n < Len(s) THEN n ELSE Len(s))
    ELSE SubSeq(s, 1, IF Len(s) + n > 0 THEN Len(s) + n ELSE 0)

RECURSIVE Reverse(_)
\* Python `s[::-1]`.
Reverse(s) == IF s = <<>> THEN <<>> ELSE Reverse(Tail(s)) \o <<Head(s)>>

RECURSIVE InsertDesc(_, _)
InsertDesc(x, s) ==
    IF s = <<>> THEN <<x>>
    ELSE IF x >= Head(s) THEN <<x>> \o s
    ELSE <<Head(s)>> \o InsertDesc(x, Tail(s))

RECURSIVE SortDesc(_)
\* Python `ids.sort(reverse=True)`.
SortDesc(s) == IF s = <<>> THEN <<>> ELSE InsertDesc(Head(s), SortDesc(Tail(s)))

Range(s) == {s[k] : k \in 1..Len(s)}

\* Sequences without repetition over S, of length at most n.
DistinctSeqs(S, n) ==
    UNION {{s \in [1..k -> S] : \A a, b \in 1..k : a # b => s[a] # s[b]} : k \in 0..n}

(***************************************************************************)
(* EmailConfig.                                                            *)
(***************************************************************************)
OptStr(v) == {None, "", v}

EmailConfig ==
    [smtp_use_tls : BOOLEAN,
     smtp_user : OptStr("user@x"),
     smtp_password : {None, "secret"},
     default_from : OptStr("noreply@x"),
     imap_host : OptStr("imap.x"),
     imap_ssl : BOOLEAN,
     pop3_host : OptStr("pop.x"),
     pop3_ssl : BOOLEAN]

HostMissing_NoneOnly(h) == h = None

\* `not self.config.imap_host` (line 195), `not self.config.pop3_host` (line 263)
HostMissing(h) == ~Truthy(h)

\* `self.config.smtp_user and self.config.smtp_password`
HasCredentials(c) == Truthy(c.smtp_user) /\ Truthy(c.smtp_password)

(***************************************************************************)
(* The log of commands issued on the session of the call.                  *)
(***************************************************************************)
\* An entry is the command, its argument (0 when it has none) and how the
\* server answered: OK, a non-OK status ("NO"), or the exception raised.
OK == "OK"
Cmd(name, arg, res, sess) == [cmd |-> name, arg |-> arg, res |-> res, sess |-> sess]

\* A command on the session the call holds.
Issue(name, arg, res) == log' = Append(log, Cmd(name, arg, res, server))

Tasks == {1, 2}

NewSession_Pooled(opened) == 1

\* The constructors of lines 160, 175, 199, 201, 267, 269 make a new object,
\* and with it a new connection, on every call.
NewSession(opened) == Len(opened) + 1

\* The constructor of the session: on success the call holds the new session
\* in its local variable, on failure there is no session.
OpenSession(name, res) ==
    /\ log' = Append(log, Cmd(name, 0, res, IF res = OK THEN NewSession(sessions) ELSE 0))
    /\ server' = IF res = OK THEN NewSession(sessions) ELSE server
    /\ sessions' = IF res = OK THEN Append(sessions, cur) ELSE sessions

NoMsg == [From |-> None, To |-> <<>>, Cc |-> NoList]
NoEnvelope == [from_addr |-> None, to_addrs |-> <<>>]

\* The locals of a call that has not started.
IdleFrame ==
    [op |-> "none", args |-> [limit |-> 0], pc |-> "idle", log |-> <<>>,
     exc |-> NoErr, outcome |-> "none", err |-> NoErr, retval |-> <<>>,
     msg |-> NoMsg, envelope |-> NoEnvelope, refused |-> {}, listing |-> <<>>,
     ids |-> <<>>, pos |-> 1, results |-> <<>>, server |-> 0]

InitCall ==
    /\ op = "none"
    /\ args = [limit |-> 0]
    /\ pc = "idle"
    /\ log = <<>>
    /\ exc = NoErr
    /\ outcome = "none"
    /\ err = NoErr
    /\ retval = <<>>
    /\ msg = NoMsg
    /\ envelope = NoEnvelope
    /\ refused = {}
    /\ listing = <<>>
    /\ ids = <<>>
    /\ pos = 1
    /\ results = <<>>
    /\ server = 0
    /\ sessions = <<>>
    /\ cur = 1
    /\ tasks = [t \in Tasks |-> IdleFrame]

\* The finally block is over: a pending exception propagates, otherwise the
\* call returns the value of the return statement that was reached (retval).
Finish ==
    /\ pc' = "done"
    /\ outcome' = IF exc = NoErr THEN "return" ELSE "raise"
    /\ err' = exc
    /\ retval' = IF exc = NoErr THEN retval ELSE <<>>

\* An exception leaves the handler with no enclosing try block.
RaiseOut(e) ==
    /\ pc' = "done"
    /\ outcome' = "raise"
    /\ err' = e
    /\ retval' = <<>>

(***************************************************************************)
(* send_email                                                              *)
(***************************************************************************)
ToLists == {<<"a@x">>, <<"a@x", "b@x">>}
CcLists == {NoList, SomeList(<<>>), SomeList(<<"c@x">>)}
BccLists == {NoList, SomeList(<<"b@x">>), SomeList(<<"c@x">>), SomeList(<<"me@x">>)}
FromArgs == OptStr("me@x")

\* lines 140-141
ResolveFrom(from_address, c) ==
    IF from_address = None THEN PyOr(c.default_from, c.smtp_user) ELSE from_address

AllRecipients_NoBcc(to, cc, bcc) == to \o OrEmpty(cc)

\* line 149
AllRecipients(to, cc, bcc) == to \o OrEmpty(cc) \o OrEmpty(bcc)

RECURSIVE JoinComma(_)
\* Python `", ".join(addresses)`: the text of an address header, as the
\* addresses with the separator between them.
JoinComma(s) ==
    IF Len(s) <= 1 THEN s
    ELSE <<Head(s), ", ">> \o JoinComma(Tail(s))

\* lines 142-147
BuildMessage(from_address, to, cc) ==
    [From |-> from_address,
     To |-> JoinComma(to),
     Cc |-> IF cc.present /\ cc.val # <<>> THEN SomeList(JoinComma(cc.val)) ELSE NoList]

\* Lines 165-167 and 177-179: login only with credentials, then the submission.
SmtpAfterGreeting(c) == IF HasCredentials(c) THEN "login" ELSE "send_message"

SmtpFirstStep_NoUpgrade(c) == SmtpAfterGreeting(c)

\* First command inside the try block of the branch taken (lines 158-162, 177).
SmtpFirstStep(c) == IF c.smtp_use_tls THEN "ehlo1" ELSE SmtpAfterGreeting(c)

\* send_email, lines 126-158: resolve the sender, build the message, pick the
\* branch; kind tells the blocking call from the one made by send_email_async.
SendEmailCall(kind, to, cc, bcc, from_arg) ==
    /\ pc = "idle"
    /\ op' = kind
    /\ args' = [to |-> to, cc |-> cc, bcc |-> bcc, from_address |-> from_arg]
    /\ LET f == ResolveFrom(from_arg, cfg) IN
         /\ msg' = BuildMessage(f, to, cc)
         /\ envelope' = [from_addr |-> f, to_addrs |-> AllRecipients(to, cc, bcc)]
    /\ pc' = "smtp_connect"
    /\ UNCHANGED <<cur, tasks, sessions, server, cfg, log, exc, outcome, err, retval, refused, listing, ids, pos, results>>

\* send_email called by the caller itself
SendEmail(to, cc, bcc, from_arg) == SendEmailCall("send", to, cc, bcc, from_arg)

\* smtplib.SMTP(...) (line 160) or smtplib.SMTP_SSL(...) (line 175): outside the try.
SmtpConnect ==
    /\ pc = "smtp_connect"
    /\ \E res \in {OK, "OSError"} :
         /\ OpenSession(IF cfg.smtp_use_tls THEN "connect" ELSE "connect_ssl", res)
         /\ IF res = OK
            THEN /\ pc' = SmtpFirstStep(cfg)
                 /\ UNCHANGED <<outcome, err, retval>>
            ELSE RaiseOut(res)
    /\ UNCHANGED <<cur, tasks, cfg, op, args, exc, msg, envelope, refused, listing, ids, pos, results>>

SmtpStep_Retry(at, name, next, e) ==
    /\ pc = at
    /\ \E res \in {OK, e} :
         /\ Issue(name, 0, res)
         /\ pc' = IF res = OK THEN next ELSE at
         /\ exc' = exc
    /\ UNCHANGED <<cur, tasks, sessions, server, cfg, op, args, outcome, err, retval, msg, envelope, refused,
                   listing, ids, pos, results>>

\* A command inside the try block: on success go on, on failure run the finally.
SmtpStep(at, name, next, e) ==
    /\ pc = at
    /\ \E res \in {OK, e} :
         /\ Issue(name, 0, res)
         /\ pc' = IF res = OK THEN next ELSE "quit"
         /\ exc' = IF res = OK THEN exc ELSE res
    /\ UNCHANGED <<cur, tasks, sessions, server, cfg, op, args, outcome, err, retval, msg, envelope, refused,
                   listing, ids, pos, results>>

\* line 162
SmtpEhlo1 == SmtpStep("ehlo1", "ehlo", "starttls", "SMTPHeloError")

\* line 163
SmtpStartTls == SmtpStep("starttls", "starttls", "ehlo2", "SMTPNotSupportedError")

\* line 164
SmtpEhlo2 == SmtpStep("ehlo2", "ehlo", SmtpAfterGreeting(cfg), "SMTPHeloError")

\* lines 166, 178
SmtpLogin == SmtpStep("login", "login", "send_message", "SMTPAuthenticationError")

\* What send_email does with the outcome of server.send_message (lines 167, 179):
\* smtplib.sendmail issues one RCPT per entry of the list to_addrs (duplicates
\* kept), collects the refused addresses in a dictionary keyed by address and
\* raises when len(senderrs) == len(to_addrs); otherwise it goes on to DATA and
\* returns the dictionary, which send_email drops.
SubmitRaises(to_addrs, refusedSet) == Cardinality(refusedSet) = Len(to_addrs)

\* lines 167, 179
SmtpSendMessage ==
    /\ pc = "send_message"
    /\ \E r \in SUBSET Range(envelope.to_addrs) :
         /\ refused' = r
         /\ IF SubmitRaises(envelope.to_addrs, r)
            THEN /\ Issue("send_message", 0, "SMTPRecipientsRefused")
                 /\ exc' = "SMTPRecipientsRefused"
            ELSE \E data \in {OK, "SMTPDataError"} :
                   /\ Issue("send_message", 0, data)
                   /\ exc' = IF data = OK THEN exc ELSE data
    /\ pc' = "quit"
    /\ UNCHANGED <<cur, tasks, sessions, server, cfg, op, args, outcome, err, retval, msg, envelope, listing, ids, pos, results>>

SmtpQuitFailure_Propagates(pending, quitErr) == quitErr

\* `except Exception:` of lines 171 and 183: the exception of quit() is dropped,
\* what was pending before the finally block stays pending.
SmtpQuitFailure(pending, quitErr) == pending

\* lines 169-170, 181-182
SmtpQuit ==
    /\ pc = "quit"
    /\ \E res \in {OK, "SMTPServerDisconnected"} :
         /\ Issue("quit", 0, res)
         /\ IF res = OK
            THEN Finish /\ exc' = exc
            ELSE /\ pc' = "close"
                 /\ exc' = SmtpQuitFailure(exc, res)
                 /\ UNCHANGED <<outcome, err, retval>>
    /\ UNCHANGED <<cur, tasks, sessions, server, cfg, op, args, msg, envelope, refused, listing, ids, pos, results>>

\* lines 172, 184: server.close() drops the socket.
SmtpClose ==
    /\ pc = "close"
    /\ Issue("close", 0, OK)
    /\ Finish
    /\ UNCHANGED <<cur, tasks, sessions, server, cfg, op, args, exc, msg, envelope, refused, listing, ids, pos, results>>

SendConfigs ==
    {c \in EmailConfig : c.imap_host = None /\ c.imap_ssl /\ c.pop3_host = None /\ c.pop3_ssl}

InitSend == cfg \in SendConfigs /\ InitCall

NextSend ==
    \/ \E to \in ToLists, cc \in CcLists, bcc \in BccLists, f \in FromArgs :
         SendEmail(to, cc, bcc, f)
    \/ SmtpConnect
    \/ SmtpEhlo1
    \/ SmtpStartTls
    \/ SmtpEhlo2
    \/ SmtpLogin
    \/ SmtpSendMessage
    \/ SmtpQuit
    \/ SmtpClose

SpecSend == InitSend /\ [][NextSend]_vars

(***************************************************************************)
(* fetch_unseen_imap                                                       *)
(***************************************************************************)
\* Message ids a mailbox can hold: 1, 3, 5, ...
MsgIds == {2 * k - 1 : k \in 1..MaxListed}
Limits == (0 - 1)..MaxLimit

\* What the server can answer to SEARCH UNSEEN: message ids, none twice.
SearchResponses == DistinctSeqs(MsgIds, MaxListed)

ImapLoginMode_BestEffort(c) == IF HasCredentials(c) THEN "swallow" ELSE "skip"

\* Lines 204-212: which login statement runs.
ImapLoginMode(c) ==
    IF Truthy(c.imap_host) /\ HasCredentials(c) THEN "propagate"
    ELSE IF HasCredentials(c) THEN "swallow"
    ELSE "skip"

\* Line 218 and the slice of line 220.
ImapIdsToProcess(data, limit) == PySliceTo(Reverse(data), limit)

\* The exception is pending and the finally block runs (line 248).
ImapFail(e) ==
    /\ exc' = e
    /\ pc' = "imap_close"

\* fetch_unseen_imap, lines 190-196
FetchUnseenImap(limit, mark_seen) ==
    /\ pc = "idle"
    /\ op' = "imap"
    /\ args' = [folder |-> "INBOX", limit |-> limit, mark_seen |-> mark_seen]
    /\ IF HostMissing(cfg.imap_host)
       THEN RaiseOut("ValueError")
       ELSE /\ pc' = "imap_connect"
            /\ UNCHANGED <<outcome, err, retval>>
    /\ UNCHANGED <<cur, tasks, sessions, server, cfg, log, exc, msg, envelope, refused, listing, ids, pos, results>>

\* lines 198-201: outside the try
ImapConnect ==
    /\ pc = "imap_connect"
    /\ \E res \in {OK, "OSError"} :
         /\ OpenSession(IF cfg.imap_ssl THEN "connect_ssl" ELSE "connect", res)
         /\ IF res = OK
            THEN /\ pc' = IF ImapLoginMode(cfg) = "skip" THEN "imap_select" ELSE "imap_login"
                 /\ UNCHANGED <<outcome, err, retval>>
            ELSE RaiseOut(res)
    /\ UNCHANGED <<cur, tasks, cfg, op, args, exc, msg, envelope, refused, listing, ids, pos, results>>

\* lines 204-212
ImapLogin ==
    /\ pc = "imap_login"
    /\ \E res \in {OK, "IMAP4.error"} :
         /\ Issue("login", 0, res)
         /\ IF res # OK /\ ImapLoginMode(cfg) = "propagate"
            THEN ImapFail(res)
            ELSE pc' = "imap_select" /\ exc' = exc
    /\ UNCHANGED <<cur, tasks, sessions, server, cfg, op, args, outcome, err, retval, msg, envelope, refused,
                   listing, ids, pos, results>>

\* line 214
ImapSelect ==
    /\ pc = "imap_select"
    /\ \E res \in {OK, "IMAP4.error"} :
         /\ Issue("select", 0, res)
         /\ IF res = OK THEN pc' = "imap_search" /\ exc' = exc ELSE ImapFail(res)
    /\ UNCHANGED <<cur, tasks, sessions, server, cfg, op, args, outcome, err, retval, msg, envelope, refused,
                   listing, ids, pos, results>>

ImapSearchEffect_NotOkRaises(status) == IF status = OK THEN "loop" ELSE "raise"

\* Lines 216-217: a status other than OK returns the empty list.
ImapSearchEffect(status) == IF status = OK THEN "loop" ELSE "return_empty"

\* lines 215-220: the search, and the loop entered or left at once
ImapSearch ==
    /\ pc = "imap_search"
    /\ \/ \E data \in SearchResponses :
            /\ Issue("search", 0, OK)
            /\ listing' = data
            /\ ids' = ImapIdsToProcess(data, args.limit)
            /\ pos' = 1
            /\ results' = <<>>
            /\ exc' = exc
            /\ IF ImapIdsToProcess(data, args.limit) = <<>>
               THEN pc' = "imap_close" /\ retval' = <<>>
               ELSE pc' = "imap_fetch" /\ retval' = retval
       \/ /\ Issue("search", 0, "NO")
          /\ IF ImapSearchEffect("NO") = "return_empty"
             THEN retval' = <<>> /\ pc' = "imap_close" /\ exc' = exc
             ELSE ImapFail("IMAP4.error") /\ retval' = retval
          /\ UNCHANGED <<listing, ids, pos, results>>
       \/ /\ Issue("search", 0, "IMAP4.error")
          /\ ImapFail("IMAP4.error")
          /\ UNCHANGED <<retval, listing, ids, pos, results>>
    /\ UNCHANGED <<cur, tasks, sessions, server, cfg, op, args, outcome, err, msg, envelope, refused>>

\* The loop of line 220 moves to the next id, or line 247 returns the results.
ImapNextId(res) ==
    /\ pos' = pos + 1
    /\ IF pos + 1 > Len(ids)
       THEN pc' = "imap_close" /\ retval' = res
       ELSE pc' = "imap_fetch" /\ retval' = retval

\* What lines 221-225 do with the answer to FETCH: "NO" is a status other than
\* OK, "IMAP4.error" is the command raising, "TypeError" is an OK answer whose
\* payload is not a message (msg_data[0] is None).
ImapFetchEffect(res) ==
    CASE res = OK -> "append"
      [] res = "NO" -> "continue"
      [] OTHER -> "raise"

\* lines 221-239
ImapFetch ==
    /\ pc = "imap_fetch"
    /\ pos <= Len(ids)
    /\ \E res \in {OK, "NO", "IMAP4.error", "TypeError"} :
         /\ Issue("fetch", ids[pos], res)
         /\ CASE ImapFetchEffect(res) = "append" ->
                   /\ results' = Append(results, ids[pos])
                   /\ exc' = exc
                   /\ IF ~args.mark_seen
                      THEN pc' = "imap_store" /\ UNCHANGED <<pos, retval>>
                      ELSE ImapNextId(Append(results, ids[pos]))
              [] ImapFetchEffect(res) = "continue" ->
                   /\ ImapNextId(results)
                   /\ UNCHANGED <<results, exc>>
              [] OTHER ->
                   /\ ImapFail(res)
                   /\ UNCHANGED <<results, pos, retval>>
    /\ UNCHANGED <<cur, tasks, sessions, server, cfg, op, args, outcome, err, msg, envelope, refused, listing, ids>>

ImapStoreEffect_Unguarded(res) == IF res = "IMAP4.error" THEN "raise" ELSE "continue"

\* Lines 242-245: the answer to STORE is not looked at and an exception is dropped.
ImapStoreEffect(res) == "continue"

\* lines 240-245
ImapStore ==
    /\ pc = "imap_store"
    /\ \E res \in {OK, "NO", "IMAP4.error"} :
         /\ Issue("store", ids[pos], res)
         /\ IF ImapStoreEffect(res) = "continue"
            THEN ImapNextId(results) /\ exc' = exc
            ELSE ImapFail(res) /\ UNCHANGED <<pos, retval>>
    /\ UNCHANGED <<cur, tasks, sessions, server, cfg, op, args, outcome, err, msg, envelope, refused,
                   listing, ids, results>>

ImapAfterClose_OneTry(res) == IF res = OK THEN "imap_logout" ELSE "done"

\* Lines 249-253: close() has a try of its own, logout() comes next either way.
ImapAfterClose(res) == "imap_logout"

\* lines 249-252
ImapClose ==
    /\ pc = "imap_close"
    /\ \E res \in {OK, "IMAP4.error"} :
         /\ Issue("close", 0, res)
         /\ pc' = ImapAfterClose(res)
    /\ UNCHANGED <<cur, tasks, sessions, server, cfg, op, args, exc, outcome, err, retval, msg, envelope, refused,
                   listing, ids, pos, results>>

\* lines 253-256
ImapLogout ==
    /\ pc = "imap_logout"
    /\ \E res \in {OK, "IMAP4.error"} :
         /\ Issue("logout", 0, res)
         /\ Finish
    /\ UNCHANGED <<cur, tasks, sessions, server, cfg, op, args, exc, msg, envelope, refused, listing, ids, pos, results>>

(***************************************************************************)
(* fetch_pop3                                                              *)
(***************************************************************************)
\* Message numbers a maildrop can hold.
MsgNums == 1..MaxListed

\* An entry of the LIST answer, b"<number> <octets>".
ListItem(n) == [num |-> n, octets |-> 25 * n]

\* What the server can answer to LIST: one entry per message, none twice.
PopListings ==
    {[k \in 1..Len(s) |-> ListItem(s[k])] : s \in DistinctSeqs(MsgNums, MaxListed)}

\* Lines 281-282 and the slice of line 284.
PopIdsToRetrieve(items, limit) ==
    PySliceTo(SortDesc([k \in 1..Len(items) |-> items[k].num]), limit)

\* fetch_pop3, lines 258-264
FetchPop3(limit) ==
    /\ pc = "idle"
    /\ op' = "pop3"
    /\ args' = [limit |-> limit]
    /\ IF HostMissing(cfg.pop3_host)
       THEN RaiseOut("ValueError")
       ELSE /\ pc' = "pop_connect"
            /\ UNCHANGED <<outcome, err, retval>>
    /\ UNCHANGED <<cur, tasks, sessions, server, cfg, log, exc, msg, envelope, refused, listing, ids, pos, results>>

\* lines 266-269: outside the try
PopConnect ==
    /\ pc = "pop_connect"
    /\ \E res \in {OK, "OSError"} :
         /\ OpenSession(IF cfg.pop3_ssl THEN "connect_ssl" ELSE "connect", res)
         /\ IF res = OK
            THEN /\ pc' = IF HasCredentials(cfg) THEN "pop_user" ELSE "pop_list"
                 /\ UNCHANGED <<outcome, err, retval>>
            ELSE RaiseOut(res)
    /\ UNCHANGED <<cur, tasks, cfg, op, args, exc, msg, envelope, refused, listing, ids, pos, results>>

PopAuthFailure_Propagates(pending, authErr) == authErr

\* `except Exception: pass` of lines 276-277: the exception of user() or
\* pass_() is dropped.
PopAuthFailure(pending, authErr) == pending

\* lines 273-274, 276-277
PopUser ==
    /\ pc = "pop_user"
    /\ \E res \in {OK, "error_proto"} :
         /\ Issue("user", 0, res)
         /\ pc' = IF res = OK THEN "pop_pass" ELSE "pop_list"
         /\ exc' = IF res = OK THEN exc ELSE PopAuthFailure(exc, res)
    /\ UNCHANGED <<cur, tasks, sessions, server, cfg, op, args, outcome, err, retval, msg, envelope, refused,
                   listing, ids, pos, results>>

\* lines 275-277
PopPass ==
    /\ pc = "pop_pass"
    /\ \E res \in {OK, "error_proto"} :
         /\ Issue("pass_", 0, res)
         /\ pc' = "pop_list"
         /\ exc' = IF res = OK THEN exc ELSE PopAuthFailure(exc, res)
    /\ UNCHANGED <<cur, tasks, sessions, server, cfg, op, args, outcome, err, retval, msg, envelope, refused,
                   listing, ids, pos, results>>

\* lines 279-284: the listing, and the loop entered or left at once
PopList ==
    /\ pc = "pop_list"
    /\ \/ \E items \in PopListings :
            /\ Issue("list", 0, OK)
            /\ listing' = items
            /\ ids' = PopIdsToRetrieve(items, args.limit)
            /\ pos' = 1
            /\ results' = <<>>
            /\ exc' = exc
            /\ retval' = <<>>
            /\ pc' = IF PopIdsToRetrieve(items, args.limit) = <<>>
                     THEN "pop_quit" ELSE "pop_retr"
       \/ /\ Issue("list", 0, "error_proto")
          /\ exc' = "error_proto"
          /\ pc' = "pop_quit"
          /\ UNCHANGED <<retval, listing, ids, pos, results>>
    /\ UNCHANGED <<cur, tasks, sessions, server, cfg, op, args, outcome, err, msg, envelope, refused>>

\* Lines 303-304: what the loop body does when retr or the parse raised.
PopAfterRetrFailed == "continue"

\* lines 285-305: one turn of the loop; "error_proto" is retr raising and
\* "ParseError" an exception raised while the retrieved lines are decoded.
PopRetr ==
    /\ pc = "pop_retr"
    /\ pos <= Len(ids)
    /\ \E res \in {OK, "error_proto", "ParseError"} :
         /\ Issue("retr", ids[pos], res)
         /\ IF res = OK \/ PopAfterRetrFailed = "continue"
            THEN /\ results' = IF res = OK THEN Append(results, ids[pos]) ELSE results
                 /\ retval' = results'
                 /\ pos' = pos + 1
                 /\ pc' = IF pos + 1 > Len(ids) THEN "pop_quit" ELSE "pop_retr"
                 /\ exc' = exc
            ELSE /\ exc' = res
                 /\ pc' = "pop_quit"
                 /\ UNCHANGED <<results, pos, retval>>
    /\ UNCHANGED <<cur, tasks, sessions, server, cfg, op, args, outcome, err, msg, envelope, refused,
                   listing, ids>>

\* lines 307-309
PopQuit ==
    /\ pc = "pop_quit"
    /\ \E res \in {OK, "error_proto"} :
         /\ Issue("quit", 0, res)
         /\ IF res = OK
            THEN Finish
            ELSE /\ pc' = "pop_close"
                 /\ UNCHANGED <<outcome, err, retval>>
    /\ UNCHANGED <<cur, tasks, sessions, server, cfg, op, args, exc, msg, envelope, refused, listing, ids, pos, results>>

\* lines 310-313
PopClose ==
    /\ pc = "pop_close"
    /\ \E res \in {OK, "OSError"} :
         /\ Issue("close", 0, res)
         /\ Finish
    /\ UNCHANGED <<cur, tasks, sessions, server, cfg, op, args, exc, msg, envelope, refused, listing, ids, pos, results>>

FetchConfigs ==
    {c \in EmailConfig : c.smtp_use_tls /\ c.default_from = None}

InitFetch == cfg \in FetchConfigs /\ InitCall

NextFetch ==
    \/ \E limit \in Limits, mark_seen \in BOOLEAN : FetchUnseenImap(limit, mark_seen)
    \/ ImapConnect
    \/ ImapLogin
    \/ ImapSelect
    \/ ImapSearch
    \/ ImapFetch
    \/ ImapStore
    \/ ImapClose
    \/ ImapLogout
    \/ \E limit \in Limits : FetchPop3(limit)
    \/ PopConnect
    \/ PopUser
    \/ PopPass
    \/ PopList
    \/ PopRetr
    \/ PopQuit
    \/ PopClose

SpecFetch == InitFetch /\ [][NextFetch]_vars

(***************************************************************************)
(* Reading the log.                                                        *)
(***************************************************************************)
IsPrefix(a, b) == Len(a) <= Len(b) /\ \A k \in 1..Len(a) : a[k] = b[k]

Last(s) == s[Len(s)]

Names(l) == [k \in 1..Len(l) |-> l[k].cmd]

IsSmtpCleanup(e) == e.cmd \in {"quit", "close"}
IsSmtpBody(e) == ~IsSmtpCleanup(e)
IsFetchCmd(e) == e.cmd = "fetch"
IsRetrCmd(e) == e.cmd = "retr"
IsOkFetch(e) == e.cmd = "fetch" /\ e.res = OK
IsOkRetr(e) == e.cmd = "retr" /\ e.res = OK

ArgsOf(l) == [k \in 1..Len(l) |-> l[k].arg]

\* The session exists: the first command, the connect, was answered OK.
Connected == log # <<>> /\ log[1].res = OK

\* The log ends with quit answered OK, or with a failed quit and then close.
EndsWithQuitOrClose ==
    /\ log # <<>>
    /\ \/ Last(log).cmd = "quit" /\ Last(log).res = OK
       \/ /\ Len(log) >= 2
          /\ Last(log).cmd = "close"
          /\ log[Len(log) - 1].cmd = "quit"
          /\ log[Len(log) - 1].res # OK

\* The commands the STARTTLS branch may issue before the cleanup, in order.
StartTlsSequence(c) ==
    <<"connect", "ehlo", "starttls", "ehlo">>
        \o (IF HasCredentials(c) THEN <<"login">> ELSE <<>>)
        \o <<"send_message">>

(***************************************************************************)
(* Claims on send_email (SpecSend).                                        *)
(***************************************************************************)

\* C1: with smtp_use_tls the session sees EHLO, STARTTLS, EHLO, login (only with
\* credentials), submit, in that order, each issued only after the earlier ones
\* succeeded; the cleanup comes last and, once the connection is open, every
\* return is preceded by quit, or by close when quit failed.
C1_StartTlsOrderAndCleanup ==
    (op = "send" /\ cfg.smtp_use_tls) =>
        LET body == SelectSeq(log, IsSmtpBody) IN
        /\ log = body \o SelectSeq(log, IsSmtpCleanup)
        /\ IsPrefix(Names(body), StartTlsSequence(cfg))
        /\ \A k \in 1..(Len(body) - 1) : body[k].res = OK
        /\ (pc = "done" /\ Connected) => EndsWithQuitOrClose

C1_Witness ==
    /\ op = "send" /\ cfg.smtp_use_tls /\ HasCredentials(cfg)
    /\ pc = "done"
    /\ \E k \in 1..Len(log) : log[k].cmd = "send_message" /\ log[k].res # OK
    /\ Last(log).cmd = "close"
    /\ Names(SelectSeq(log, IsSmtpBody)) = StartTlsSequence(cfg)

\* No sender can be resolved for the call.
FromUnresolvable ==
    /\ op = "send"
    /\ args.from_address = None
    /\ ~Truthy(cfg.default_from)
    /\ ~Truthy(cfg.smtp_user)

\* C2: a send call for which no from-address is resolvable fails with a
\* configuration error and opens no SMTP connection.
C2_UnresolvedFromFailsBeforeConnect ==
    FromUnresolvable =>
        /\ log = <<>>
        /\ pc = "done" => (outcome = "raise" /\ err = "ValueError")

\* C7: a send call that returns successfully had every envelope recipient
\* accepted by the server; no recipient was refused.
C7_NoPartialSuccess ==
    (op = "send" /\ pc = "done" /\ outcome = "return") => refused = {}

\* C8: the outcome of a finished send call is that of the commands up to and
\* including the submit: it succeeds iff none of them failed, it raises the
\* failure of the one that failed, whatever quit answered; a failed quit is
\* followed by close.  Both branches.
C8_OutcomeDecidedBeforeCleanup ==
    (op = "send" /\ pc = "done" /\ Connected) =>
        LET body == SelectSeq(log, IsSmtpBody)
            failed == {k \in 1..Len(body) : body[k].res # OK}
        IN
        /\ outcome = "return" <=> failed = {}
        /\ failed = {} => (Last(body).cmd = "send_message" /\ err = NoErr)
        /\ failed # {} =>
              /\ outcome = "raise"
              /\ \A k \in failed : err = body[k].res
        /\ EndsWithQuitOrClose

C8_Witness ==
    /\ op = "send" /\ ~cfg.smtp_use_tls
    /\ pc = "done"
    /\ outcome = "return"
    /\ \E k \in 1..Len(log) : log[k].cmd = "send_message" /\ log[k].res = OK
    /\ \E k \in 1..Len(log) : log[k].cmd = "quit" /\ log[k].res # OK
    /\ Last(log).cmd = "close"

(***************************************************************************)
(* Claims on fetch_unseen_imap and fetch_pop3 (SpecFetch).                 *)
(***************************************************************************)

\* C3: without an IMAP host (a POP3 host) fetch_unseen_imap (fetch_pop3) fails
\* with the configuration error, and no connection is opened and no command
\* issued, whatever the rest of the configuration and the arguments.
C3_MissingHostFailsBeforeConnect ==
    /\ (op = "imap" /\ cfg.imap_host \in {None, ""}) =>
          (pc = "done" /\ outcome = "raise" /\ err = "ValueError" /\ log = <<>>)
    /\ (op = "pop3" /\ cfg.pop3_host \in {None, ""}) =>
          (pc = "done" /\ outcome = "raise" /\ err = "ValueError" /\ log = <<>>)

C3_Witness ==
    /\ op = "pop3"
    /\ cfg.pop3_host = ""
    /\ Truthy(cfg.imap_host) /\ HasCredentials(cfg)
    /\ args.limit = MaxLimit
    /\ pc = "done" /\ outcome = "raise"

\* C4: when the search answers with the unseen ids 5, 3, 1 and limit is 2, the
\* fetches go to id 5 and then id 3 and to no other id, at most 2 messages are
\* returned, and with mark_seen false the seen flag is cleared on 5 and on 3.
C4_NewestIdsFirst ==
    (op = "imap" /\ listing = <<5, 3, 1>> /\ args.limit = 2) =>
        LET fetched == SelectSeq(log, IsFetchCmd) IN
        /\ IsPrefix(ArgsOf(fetched), <<5, 3>>)
        /\ (pc = "done" /\ outcome = "return") => Len(retval) <= 2
        /\ (pc = "done" /\ ~args.mark_seen /\ Len(SelectSeq(log, IsOkFetch)) = 2) =>
              \A id \in {5, 3} : \E k \in 1..Len(log) :
                  log[k].cmd = "store" /\ log[k].arg = id

\* The LIST answer is in, and the message numbers it names.
Listed == op = "pop3" /\ \E k \in 1..Len(log) : log[k].cmd = "list" /\ log[k].res = OK
ListedNums == {listing[k].num : k \in 1..Len(listing)}

\* A limit as a count of messages: a negative limit stands for none.
Max0(n) == IF n > 0 THEN n ELSE 0

\* C5: for every listing and every limit, fetch_pop3 attempts the retrievals
\* in strictly descending message number, they are the first `limit` numbers
\* of that order (all of them when fewer are listed, none for a limit below
\* 1); a retrieval or parse that raises skips that message only, and the call
\* returns exactly the messages retrieved, in the order of retrieval.
C5_Pop3DescendingAndSkip ==
    Listed =>
        LET attempted == ArgsOf(SelectSeq(log, IsRetrCmd))
            retrieved == ArgsOf(SelectSeq(log, IsOkRetr))
            loopOver == pc \in {"pop_quit", "pop_close", "done"}
        IN
        /\ \A k \in 1..(Len(attempted) - 1) : attempted[k] > attempted[k + 1]
        /\ Range(attempted) \subseteq ListedNums
        /\ \A n \in ListedNums \ Range(attempted) :
              \A k \in 1..Len(attempted) : n < attempted[k]
        /\ results = retrieved
        /\ loopOver =>
              Len(attempted) = IF Max0(args.limit) < Cardinality(ListedNums)
                               THEN Max0(args.limit) ELSE Cardinality(ListedNums)
        /\ pc = "done" => (outcome = "return" /\ retval = retrieved)

TeardownPcs == {"imap_close", "imap_logout", "pop_quit", "pop_close"}

\* The log of a finished call ends with the teardown of its session.
TeardownIssued ==
    /\ (op = "imap") =>
          /\ Len(log) >= 3
          /\ log[Len(log) - 1].cmd = "close"
          /\ Last(log).cmd = "logout"
    /\ (op = "pop3") => EndsWithQuitOrClose

\* A step of the teardown leaves what the call will return or raise as it was.
TeardownKeepsResult ==
    pc \in TeardownPcs =>
        /\ exc' = exc
        /\ pc' = "done" =>
              /\ outcome' = (IF exc = NoErr THEN "return" ELSE "raise")
              /\ err' = exc
              /\ retval' = (IF exc = NoErr THEN retval ELSE <<>>)

\* C6: a fetch call that opened a connection issues the teardown before it
\* returns, on every exit path: close and then logout for IMAP, logout also
\* when close failed; quit for POP3, and close when quit failed.  No step of
\* the teardown changes the result of the call or makes it raise.
C6_TeardownOnEveryExit ==
    /\ []((op \in {"imap", "pop3"} /\ pc = "done" /\ Connected) => TeardownIssued)
    /\ [][TeardownKeepsResult]_vars

C6_Witness ==
    /\ op = "imap"
    /\ pc = "done"
    /\ outcome = "return"
    /\ retval # <<>>
    /\ log[Len(log) - 1].cmd = "close" /\ log[Len(log) - 1].res # OK
    /\ Last(log).cmd = "logout" /\ Last(log).res # OK

\* C9: a fetch that is answered non-OK, that raises, or whose payload cannot
\* be parsed skips that message only: the ids up to the limit are all fetched,
\* once each, and the call returns the messages that succeeded.
C9_PerMessageFailureIsolated ==
    (op = "imap" /\ pc = "done"
        /\ \E k \in 1..Len(log) : log[k].cmd = "fetch" /\ log[k].res # OK) =>
        /\ outcome = "return"
        /\ ArgsOf(SelectSeq(log, IsFetchCmd)) = ids
        /\ retval = ArgsOf(SelectSeq(log, IsOkFetch))

\* The only commands of the log that failed are STORE, CLOSE and LOGOUT.
OnlyBestEffortFailures ==
    \A k \in 1..Len(log) :
        log[k].res # OK => log[k].cmd \in {"store", "close", "logout"}

\* C10: with mark_seen false the seen flag of id i is cleared right after the
\* fetch of i, before the next fetch, for every message added to the result,
\* and for no other; a clear that fails is followed by the fetch of the next
\* id (or by the cleanup after the last id), keeps the message in the result
\* and does not fail the call.  With mark_seen true no clear is issued.
C10_SeenFlagClearedAfterEachFetch ==
    (op = "imap") =>
        /\ args.mark_seen => \A k \in 1..Len(log) : log[k].cmd # "store"
        /\ ~args.mark_seen =>
              /\ \A k \in 1..(Len(log) - 1) :
                    IsOkFetch(log[k]) <=>
                        (log[k + 1].cmd = "store" /\ log[k + 1].arg = log[k].arg)
              /\ (log # <<>> /\ IsOkFetch(Last(log))) => pc = "imap_store"
              /\ log # <<>> => log[1].cmd # "store"
        /\ \A k \in 1..(Len(log) - 1) :
              (log[k].cmd = "store" /\ log[k].res # OK) =>
                  /\ log[k].arg \in Range(results)
                  /\ \/ /\ log[k + 1].cmd = "fetch"
                        /\ \E j \in 1..(Len(ids) - 1) :
                              ids[j] = log[k].arg /\ ids[j + 1] = log[k + 1].arg
                     \/ log[k + 1].cmd = "close" /\ log[k].arg = Last(ids)
        /\ (pc = "done" /\ Connected /\ OnlyBestEffortFailures) =>
              /\ outcome = "return"
              /\ retval = ArgsOf(SelectSeq(log, IsOkFetch))

C10_Witness ==
    /\ op = "imap" /\ ~args.mark_seen
    /\ pc = "done" /\ outcome = "return"
    /\ Len(retval) = 2
    /\ \E k \in 1..(Len(log) - 1) :
          /\ log[k].cmd = "store" /\ log[k].res = "IMAP4.error"
          /\ log[k].arg = retval[1]
          /\ log[k + 1].cmd = "fetch" /\ log[k + 1].res = OK

(***************************************************************************)
(* Claims on the message and the envelope of send_email (SpecSend).        *)
(***************************************************************************)
\* The list an optional argument stands for.
ListOf(x) == IF x.present THEN x.val ELSE <<>>

\* The envelope is to + cc + bcc, every to address is in the To header and
\* every cc address in the Cc header.
EnvelopeAndHeaders ==
    /\ envelope.to_addrs = args.to \o ListOf(args.cc) \o ListOf(args.bcc)
    /\ Range(args.to) \subseteq Range(msg.To)
    /\ Range(ListOf(args.cc)) \subseteq Range(ListOf(msg.Cc))
    /\ DOMAIN msg = {"From", "To", "Cc"}

\* The addresses that are bcc recipients only.
BccOnly == Range(ListOf(args.bcc)) \ (Range(args.to) \cup Range(ListOf(args.cc)))

\* C11 (as claimed): the envelope is to + cc + bcc, to and cc addresses are in
\* their headers, and no bcc address that is not also a to or cc address is in
\* any visible header (From, To, Cc).
C11_BccInNoVisibleHeader ==
    (op = "send") =>
        /\ EnvelopeAndHeaders
        /\ \A b \in BccOnly :
              b # msg.From /\ b \notin Range(msg.To) /\ b \notin Range(ListOf(msg.Cc))

\* C11 (amended): the envelope is to + cc + bcc, to and cc addresses are in
\* their headers, there is no Bcc header, and a bcc address that is not also a
\* to or cc address is in neither the To nor the Cc header; the From header
\* holds the sender of the call, also when that address is a bcc recipient.
C11_BccNotInRecipientHeaders ==
    (op = "send") =>
        /\ EnvelopeAndHeaders
        /\ msg.From = envelope.from_addr
        /\ \A b \in BccOnly :
              b \notin Range(msg.To) /\ b \notin Range(ListOf(msg.Cc))

C11_Witness ==
    /\ op = "send" /\ ~cfg.smtp_use_tls
    /\ pc = "done" /\ outcome = "return"
    /\ args.to = <<"a@x", "b@x">>
    /\ args.cc = SomeList(<<"c@x">>)
    /\ args.bcc = SomeList(<<"me@x">>)
    /\ msg.From = "me@x"
    /\ envelope.to_addrs = <<"a@x", "b@x", "c@x", "me@x">>
    /\ \E k \in 1..Len(log) : log[k].cmd = "send_message" /\ log[k].res = OK

\* The candidates for the sender, in the order of precedence.
SenderCandidates == <<args.from_address, cfg.default_from, cfg.smtp_user>>

\* C12: the sender is the first of explicit from, default_from and smtp_user
\* that is present and non-empty, and that value is both the From header and
\* the envelope sender.
C12_SenderPrecedence ==
    (op = "send") =>
        \A k \in 1..3 :
            (/\ Truthy(SenderCandidates[k])
             /\ \A j \in 1..(k - 1) : ~Truthy(SenderCandidates[j])) =>
                /\ msg.From = SenderCandidates[k]
                /\ envelope.from_addr = SenderCandidates[k]

(***************************************************************************)
(* Further claims on fetch_unseen_imap and fetch_pop3 (SpecFetch).         *)
(***************************************************************************)
HasCmd(name) == \E k \in 1..Len(log) : log[k].cmd = name
HasFailed(name) == \E k \in 1..Len(log) : log[k].cmd = name /\ log[k].res # OK
CountCmd(names) == Cardinality({k \in 1..Len(log) : log[k].cmd \in names})

\* C13: in fetch_pop3 with credentials USER and then PASS are tried, a failure
\* of either is swallowed and LIST is the next command on the same session;
\* without credentials LIST follows the connect.  A failed LIST fails the
\* call, after the cleanup, and nothing is retrieved.
C13_Pop3BestEffortAuth ==
    (op = "pop3" /\ Connected) =>
        /\ CountCmd({"connect", "connect_ssl"}) = 1
        /\ ~HasCredentials(cfg) =>
              /\ ~HasCmd("user") /\ ~HasCmd("pass_")
              /\ Len(log) >= 2 => log[2].cmd = "list"
        /\ HasCredentials(cfg) =>
              /\ Len(log) >= 2 => log[2].cmd = "user"
              /\ Len(log) >= 3 =>
                    log[3].cmd = (IF log[2].res = OK THEN "pass_" ELSE "list")
              /\ (Len(log) >= 4 /\ log[3].cmd = "pass_") => log[4].cmd = "list"
        /\ pc = "done" => CountCmd({"list"}) = 1
        /\ (pc = "done" /\ HasFailed("list")) =>
              /\ outcome = "raise" /\ err = "error_proto"
              /\ ~HasCmd("retr")
              /\ EndsWithQuitOrClose
        /\ (pc = "done" /\ ~HasFailed("list")) => outcome = "return"

C13_Witness ==
    /\ op = "pop3" /\ HasCredentials(cfg)
    /\ pc = "done" /\ outcome = "return"
    /\ HasCmd("user") /\ ~HasFailed("user")
    /\ HasFailed("pass_")
    /\ HasCmd("list") /\ ~HasFailed("list")
    /\ retval # <<>>

\* C14: a search answered with a status other than OK makes fetch_unseen_imap
\* return the empty list: nothing is raised, no fetch and no seen-flag clear
\* is issued, and the session cleanup is.
C14_SearchNotOkReturnsEmpty ==
    (op = "imap" /\ \E k \in 1..Len(log) : log[k].cmd = "search" /\ log[k].res = "NO") =>
        /\ ~HasCmd("fetch") /\ ~HasCmd("store")
        /\ pc \in {"imap_close", "imap_logout", "done"}
        /\ exc = NoErr
        /\ pc = "done" =>
              /\ outcome = "return"
              /\ retval = <<>>
              /\ TeardownIssued

C14_Witness ==
    /\ op = "imap" /\ HasCredentials(cfg)
    /\ pc = "done" /\ outcome = "return" /\ retval = <<>>
    /\ \E k \in 1..Len(log) : log[k].cmd = "search" /\ log[k].res = "NO"
    /\ HasFailed("close")
    /\ Last(log).cmd = "logout"

\* C18: with user and password configured a failed IMAP login fails the call:
\* no select, search or fetch follows, the error reaches the caller and the
\* cleanup runs; it is never swallowed.  Without user or password no login is
\* issued and select and search follow the connect.
C18_ImapLoginFailurePropagates ==
    (op = "imap" /\ Connected) =>
        /\ HasCredentials(cfg) => (Len(log) >= 2 => log[2].cmd = "login")
        /\ HasFailed("login") =>
              /\ ~HasCmd("select") /\ ~HasCmd("search")
              /\ ~HasCmd("fetch") /\ ~HasCmd("store")
              /\ exc = "IMAP4.error"
              /\ pc = "done" =>
                    /\ outcome = "raise" /\ err = "IMAP4.error"
                    /\ TeardownIssued
        /\ ~HasCredentials(cfg) =>
              /\ ~HasCmd("login")
              /\ Len(log) >= 2 => log[2].cmd = "select"
              /\ (Len(log) >= 3 /\ log[2].res = OK) => log[3].cmd = "search"

C18_Witness ==
    /\ op = "imap" /\ HasCredentials(cfg)
    /\ pc = "done" /\ outcome = "raise"
    /\ HasFailed("login")
    /\ Names(log) = <<IF cfg.imap_ssl THEN "connect_ssl" ELSE "connect",
                      "login", "close", "logout">>

\* C20: for every limit, negative ones and 0 included, fetch_unseen_imap and
\* fetch_pop3 issue at most max(limit, 0) per-message retrievals and return at
\* most max(limit, 0) messages.
C20_AtMostLimitRetrievals ==
    (op \in {"imap", "pop3"}) =>
        /\ CountCmd({"fetch", "retr"}) <= Max0(args.limit)
        /\ (pc = "done" /\ outcome = "return") => Len(retval) <= Max0(args.limit)

(***************************************************************************)
(* The service as a whole: one call of any of the three operations.        *)
(***************************************************************************)
AllConfigs == SendConfigs \cup FetchConfigs

Init == cfg \in AllConfigs /\ InitCall

Next == NextSend \/ NextFetch

Spec == Init /\ [][Next]_vars

\* Commands whose failure ends the work of the call, and the cleanup commands.
FatalCmds == {"ehlo", "starttls", "login", "send_message", "select", "search", "list"}
CleanupCmds == {"quit", "close", "logout"}

\* C19: a call opens at most one connection and repeats no command after a
\* failure: connect, STARTTLS, login, submit, select, search and list are each
\* issued at most once, a failed connect ends the call, and after one of the
\* others failed only the cleanup of the session follows.
C19_OneConnectionNoRetry ==
    (op \in {"send", "imap", "pop3"}) =>
        /\ CountCmd({"connect", "connect_ssl"}) <= 1
        /\ \A name \in (FatalCmds \ {"ehlo"}) \cup {"user", "pass_"} :
              CountCmd({name}) <= 1
        /\ CountCmd({"ehlo"}) <= 2
        /\ (log # <<>> /\ log[1].res # OK) =>
              (Len(log) = 1 /\ pc = "done" /\ outcome = "raise" /\ err = log[1].res)
        /\ \A k \in 1..Len(log) :
              (log[k].cmd \in FatalCmds /\ log[k].res \notin {OK, "NO"}) =>
                  \A j \in (k + 1)..Len(log) : log[j].cmd \in CleanupCmds

C19_Witness ==
    /\ op = "send" /\ cfg.smtp_use_tls /\ HasCredentials(cfg)
    /\ pc = "done" /\ outcome = "raise" /\ err = "SMTPAuthenticationError"
    /\ Names(log) = <<"connect", "ehlo", "starttls", "ehlo", "login", "quit">>

(***************************************************************************)
(* routers/contact.py: submit_contact                                      *)
(***************************************************************************)
\* The parameters send_email accepts (services/email.py, lines 126-135).
SendEmailParams ==
    {"to_addresses", "subject", "body", "html", "cc", "bcc", "from_address"}

\* The keyword arguments submit_contact passes (contact.py, lines 37-43).
ContactSendKwargs ==
    {"to_addresses", "subject", "body", "from_address", "reply_to"}

\* Python binds a call only when every keyword names a parameter; otherwise
\* the call raises TypeError before the body of the function runs.
CallBinds(kwargs, params) == kwargs \subseteq params

\* contact.py line 22: os.getenv("CONTACT_RECIPIENT") or cfg.default_from or cfg.smtp_user
ContactRecipient(env_recipient, c) == PyOr(env_recipient, PyOr(c.default_from, c.smtp_user))

\* contact.py lines 19-34: resolve the recipient, 500 when there is none.
SubmitContact(env_recipient, email) ==
    /\ pc = "idle"
    /\ op' = "contact"
    /\ args' = [env_recipient |-> env_recipient, email |-> email,
                recipient |-> ContactRecipient(env_recipient, cfg)]
    /\ IF ~Truthy(ContactRecipient(env_recipient, cfg))
       THEN RaiseOut("HTTP 500")
       ELSE /\ pc' = "contact_send"
            /\ UNCHANGED <<outcome, err, retval>>
    /\ UNCHANGED <<cur, tasks, sessions, server, cfg, log, exc, msg, envelope, refused, listing, ids, pos, results>>

\* contact.py lines 36-45: the call of send_email inside `try`, and the
\* `except Exception` that answers 502.
ContactSend ==
    /\ pc = "contact_send"
    /\ IF CallBinds(ContactSendKwargs, SendEmailParams)
       THEN /\ LET f == ResolveFrom(PyOr(cfg.default_from, args.recipient), cfg) IN
                 /\ msg' = BuildMessage(f, <<args.recipient>>, NoList)
                 /\ envelope' = [from_addr |-> f,
                                 to_addrs |-> AllRecipients(<<args.recipient>>, NoList, NoList)]
            /\ pc' = "smtp_connect"
            /\ UNCHANGED <<outcome, err, retval>>
       ELSE /\ RaiseOut("HTTP 502")
            /\ UNCHANGED <<msg, envelope>>
    /\ UNCHANGED <<cur, tasks, sessions, server, cfg, op, args, log, exc, refused, listing, ids, pos, results>>

EnvRecipients == OptStr("desk@x")

InitContact == cfg \in SendConfigs /\ InitCall

NextContact ==
    \/ \E r \in EnvRecipients, e \in {"visitor@x", "guest@x"} : SubmitContact(r, e)
    \/ ContactSend

SpecContact == InitContact /\ [][NextContact]_vars

\* C15: without a resolvable recipient the endpoint answers 500 and send is
\* not invoked; otherwise it answers 502 exactly when the SMTP send failed and
\* ok when the server accepted the message.
C15_ContactStatusFollowsSend ==
    (op = "contact") =>
        /\ (~Truthy(args.env_recipient) /\ ~Truthy(cfg.default_from) /\ ~Truthy(cfg.smtp_user)) =>
              (pc = "done" /\ outcome = "raise" /\ err = "HTTP 500" /\ log = <<>>)
        /\ (pc = "done" /\ err # "HTTP 500") =>
              /\ err = "HTTP 502" <=> \E k \in 1..Len(log) : log[k].res # OK
              /\ outcome = "return" <=>
                    \E k \in 1..Len(log) : log[k].cmd = "send_message" /\ log[k].res = OK

(***************************************************************************)
(* _get_message_text                                                       *)
(*                                                                         *)
(* A part is its content type, its Content-Disposition header (absent, or  *)
(* the text of the header), its decoded payload (absent for a container,   *)
(* else the text) and its sub-parts.  Texts are sequences of pieces, so     *)
(* that joining and stripping are operations on them.                      *)
(***************************************************************************)
Whitespace == {" ", "\n"}

Part(ctype, disp, payload, parts) ==
    [ctype |-> ctype, disp |-> disp, payload |-> payload, parts |-> parts]

\* msg.is_multipart(): the payload is a list of sub-parts.
IsMultipart(m) == m.parts # <<>>

RECURSIVE LStrip(_)
LStrip(t) == IF t # <<>> /\ Head(t) \in Whitespace THEN LStrip(Tail(t)) ELSE t

\* Python `text.strip()`.
Strip(t) == Reverse(LStrip(Reverse(LStrip(t))))

RECURSIVE JoinLines(_)
\* Python `"\n".join(texts)`.
JoinLines(texts) ==
    IF texts = <<>> THEN <<>>
    ELSE IF Len(texts) = 1 THEN Head(texts)
    ELSE Head(texts) \o <<"\n">> \o JoinLines(Tail(texts))

RECURSIVE Walk(_)
RECURSIVE WalkAll(_)
\* msg.walk(): the part itself, then its sub-parts, depth first.
Walk(m) == <<m>> \o WalkAll(m.parts)
WalkAll(ps) == IF ps = <<>> THEN <<>> ELSE Walk(Head(ps)) \o WalkAll(Tail(ps))

DispositionIsAttachment(disp) ==
    /\ disp.present
    /\ Strip(disp.val) # <<>>
    /\ Head(Strip(disp.val)) \in {"attachment", "ATTACHMENT"}

\* Line 87: `disp is not None and disp.strip().startswith("attachment")`.
IsAttachmentDisp(disp) ==
    /\ disp.present
    /\ Strip(disp.val) # <<>>
    /\ Head(Strip(disp.val)) = "attachment"

RECURSIVE ScanParts(_, _)
\* The loop of lines 84-103 over the walk, acc = [plain, html].
ScanParts(w, acc) ==
    IF w = <<>> THEN acc
    ELSE LET part == Head(w) IN
         IF IsAttachmentDisp(part.disp) THEN ScanParts(Tail(w), acc)
         ELSE IF ~part.payload.present THEN ScanParts(Tail(w), acc)
         ELSE IF part.ctype = "text/plain"
              THEN ScanParts(Tail(w), [acc EXCEPT !.plain = Append(@, part.payload.val)])
         ELSE IF part.ctype = "text/html"
              THEN ScanParts(Tail(w), [acc EXCEPT !.html = SomeList(part.payload.val)])
         ELSE ScanParts(Tail(w), acc)

\* _get_message_text, lines 79-112
GetMessageText(m) ==
    LET acc == IF IsMultipart(m)
               THEN ScanParts(Walk(m), [plain |-> <<>>, html |-> NoList])
               ELSE [plain |-> IF m.payload.present /\ m.payload.val # <<>>
                               THEN <<m.payload.val>> ELSE <<>>,
                     html |-> NoList]
    IN [plain |-> Strip(JoinLines(acc.plain)), html |-> acc.html]

AttachmentDisp == SomeList(<<" ", "attachment", "; filename=f">>)
InlineDisp == SomeList(<<"inline">>)

\* Parts without sub-parts.
LeafParts ==
    {Part("text/plain", d, SomeList(t), <<>>) :
        d \in {NoList, InlineDisp}, t \in {<<"hello">>, <<" ", "bye", "\n">>}}
    \cup {Part("text/plain", AttachmentDisp, SomeList(<<"notes">>), <<>>),
          Part("text/html", NoList, SomeList(<<"<p>hello</p>">>), <<>>),
          Part("text/html", NoList, SomeList(<<"<p>bye</p>">>), <<>>),
          Part("text/html", AttachmentDisp, SomeList(<<"<p>page</p>">>), <<>>),
          Part("application/pdf", AttachmentDisp, SomeList(<<"%PDF">>), <<>>)}

\* A forwarded message, attached: its body is a sub-part of the attachment.
AttachedMessages ==
    {Part("message/rfc822", AttachmentDisp, NoList,
          <<Part("text/plain", NoList, SomeList(<<"forwarded">>), <<>>)>>)}

ChildParts == LeafParts \cup AttachedMessages

Messages ==
    {Part("text/plain", NoList, SomeList(t), <<>>) : t \in {<<>>, <<"hello", "\n">>}}
    \cup {Part("text/html", NoList, SomeList(<<"<p>hello</p>">>), <<>>)}
    \cup UNION {{Part("multipart/mixed", NoList, NoList, ps) : ps \in [1..k -> ChildParts]} :
                   k \in 1..MaxParts}

\* One call of _get_message_text.
ExtractBody(m) ==
    /\ pc = "idle"
    /\ op' = "extract"
    /\ args' = [message |-> m]
    /\ retval' = GetMessageText(m)
    /\ pc' = "done"
    /\ outcome' = "return"
    /\ UNCHANGED <<cur, tasks, sessions, server, cfg, log, exc, err, msg, envelope, refused, listing, ids, pos, results>>

InitBody ==
    /\ cfg \in {c \in SendConfigs : c.smtp_use_tls /\ c.smtp_user = None
                                    /\ c.smtp_password = None /\ c.default_from = None}
    /\ InitCall

NextBody == \E m \in Messages : ExtractBody(m)

SpecBody == InitBody /\ [][NextBody]_vars

RECURSIVE Pieces(_)
\* The pieces of text held by a sequence of parts.
Pieces(w) ==
    IF w = <<>> THEN {}
    ELSE (IF Head(w).payload.present THEN Range(Head(w).payload.val) ELSE {})
         \cup Pieces(Tail(w))

\* The text inside the parts of m that are attachments: their own payload and
\* that of the parts they contain.
AttachmentPieces(m) ==
    UNION {Pieces(Walk(Walk(m)[k])) :
              k \in {j \in 1..Len(Walk(m)) : DispositionIsAttachment(Walk(m)[j].disp)}}

\* C17: for a multipart message neither output of _get_message_text holds the
\* content of a part whose disposition is attachment; with one text/plain part
\* and one attachment part the result is that plain text and no html.
C17_AttachmentsNeverIncluded ==
    (op = "extract" /\ pc = "done" /\ IsMultipart(args.message)) =>
        LET m == args.message
            hidden == AttachmentPieces(m) \ Whitespace
        IN
        /\ Range(retval.plain) \cap hidden = {}
        /\ Range(ListOf(retval.html)) \cap hidden = {}
        /\ (/\ Len(m.parts) = 2
            /\ m.parts[1].ctype = "text/plain" /\ ~DispositionIsAttachment(m.parts[1].disp)
            /\ DispositionIsAttachment(m.parts[2].disp)) =>
              /\ retval.plain = Strip(m.parts[1].payload.val)
              /\ retval.html = NoList

(***************************************************************************)
(* send_email_async and calls that run at the same time                    *)
(*                                                                         *)
(* Two tasks use one service.  Task 1 sends with send_email_async, task 2  *)
(* sends the same way or fetches.  The running task takes the steps of its *)
(* handler; at any point the other task can be scheduled instead.          *)
(***************************************************************************)
CurrentFrame ==
    [op |-> op, args |-> args, pc |-> pc, log |-> log, exc |-> exc,
     outcome |-> outcome, err |-> err, retval |-> retval, msg |-> msg,
     envelope |-> envelope, refused |-> refused, listing |-> listing,
     ids |-> ids, pos |-> pos, results |-> results, server |-> server]

\* The locals of task t, running or not.
FrameOf(t) == IF t = cur THEN CurrentFrame ELSE tasks[t]

\* The worker thread of asyncio.to_thread (line 188) is preempted: task t runs.
Switch(t) ==
    /\ t \in Tasks \ {cur}
    /\ tasks' = [tasks EXCEPT ![cur] = CurrentFrame, ![t] = IdleFrame]
    /\ cur' = t
    /\ op' = tasks[t].op
    /\ args' = tasks[t].args
    /\ pc' = tasks[t].pc
    /\ log' = tasks[t].log
    /\ exc' = tasks[t].exc
    /\ outcome' = tasks[t].outcome
    /\ err' = tasks[t].err
    /\ retval' = tasks[t].retval
    /\ msg' = tasks[t].msg
    /\ envelope' = tasks[t].envelope
    /\ refused' = tasks[t].refused
    /\ listing' = tasks[t].listing
    /\ ids' = tasks[t].ids
    /\ pos' = tasks[t].pos
    /\ results' = tasks[t].results
    /\ server' = tasks[t].server
    /\ UNCHANGED <<cfg, sessions>>

\* send_email_async, lines 186-188: send_email runs in a worker thread.
SendEmailAsync(to, cc, bcc, from_arg) == SendEmailCall("send_async", to, cc, bcc, from_arg)

\* `return await asyncio.to_thread(...)`: what the awaiting caller gets.
AwaitResult(workerOutcome, workerErr) == [outcome |-> workerOutcome, err |-> workerErr]

\* line 188: the worker is over and the awaiting caller is resumed
SendEmailAsyncResolve ==
    /\ pc = "done"
    /\ op = "send_async"
    /\ pc' = "resolved"
    /\ retval' = AwaitResult(outcome, err)
    /\ UNCHANGED <<cur, tasks, sessions, server, cfg, op, args, log, exc, outcome, err,
                   msg, envelope, refused, listing, ids, pos, results>>

ConcurrentConfigs ==
    {c \in EmailConfig :
        /\ c.smtp_user \in {None, "user@x"} /\ c.smtp_password = "secret"
        /\ c.default_from = "noreply@x"
        /\ c.imap_host = "imap.x" /\ c.imap_ssl
        /\ c.pop3_host = "pop.x" /\ c.pop3_ssl}

InitConcurrent == cfg \in ConcurrentConfigs /\ InitCall

NextConcurrent ==
    \/ \E t \in Tasks : Switch(t)
    \/ \E bcc \in {NoList, SomeList(<<"b@x">>)} : SendEmailAsync(<<"a@x">>, NoList, bcc, None)
    \/ SendEmailAsyncResolve
    \/ SmtpConnect
    \/ SmtpEhlo1
    \/ SmtpStartTls
    \/ SmtpEhlo2
    \/ SmtpLogin
    \/ SmtpSendMessage
    \/ SmtpQuit
    \/ SmtpClose
    \/ cur = 2 /\ FetchUnseenImap(1, FALSE)
    \/ ImapConnect
    \/ ImapLogin
    \/ ImapSelect
    \/ ImapSearch
    \/ ImapFetch
    \/ ImapStore
    \/ ImapClose
    \/ ImapLogout
    \/ cur = 2 /\ FetchPop3(1)
    \/ PopConnect
    \/ PopUser
    \/ PopPass
    \/ PopList
    \/ PopRetr
    \/ PopQuit
    \/ PopClose

SpecConcurrent == InitConcurrent /\ [][NextConcurrent]_vars

\* The commands send_email issues before the cleanup, in order, per branch.
BlockingSendSequence(c) ==
    IF c.smtp_use_tls THEN StartTlsSequence(c)
    ELSE <<"connect_ssl">> \o (IF HasCredentials(c) THEN <<"login">> ELSE <<>>)
             \o <<"send_message">>

\* The log l is one run of the blocking send: the commands in order, each
\* after the earlier ones succeeded, then quit, and close after a failed quit.
IsBlockingSendRun(l) ==
    LET body == SelectSeq(l, IsSmtpBody)
        tail == SelectSeq(l, IsSmtpCleanup)
    IN
    /\ l = body \o tail
    /\ IsPrefix(Names(body), BlockingSendSequence(cfg))
    /\ \A k \in 1..(Len(body) - 1) : body[k].res = OK
    /\ (body # <<>> /\ Last(body).res = OK) => Names(body) = BlockingSendSequence(cfg)
    /\ IF body # <<>> /\ body[1].res = OK
       THEN \/ Names(tail) = <<"quit">> /\ tail[1].res = OK
            \/ Names(tail) = <<"quit", "close">> /\ tail[1].res # OK
       ELSE tail = <<>>

\* The failure the run l ends with, NoErr for none.
RunFailure(l) ==
    LET body == SelectSeq(l, IsSmtpBody) IN
    IF body # <<>> /\ Last(body).res # OK THEN Last(body).res ELSE NoErr

\* The awaiting caller of a finished send_email_async gets what the blocking
\* run produced.
AsyncResolvesAsBlocking ==
    \A t \in Tasks :
        LET f == FrameOf(t) IN
        (f.op = "send_async" /\ f.pc = "resolved") =>
            /\ IsBlockingSendRun(f.log)
            /\ f.retval.err = RunFailure(f.log)
            /\ f.retval.outcome = (IF RunFailure(f.log) = NoErr THEN "return" ELSE "raise")

\* Every command of a task went to the session that task opened, no task
\* opened two sessions and no two tasks hold the same session.
SessionsExclusive ==
    /\ \A t \in Tasks :
          LET f == FrameOf(t) IN
          /\ \A k \in 1..Len(f.log) :
                IF f.log[k].res # OK /\ k = 1
                THEN f.log[k].sess = 0
                ELSE /\ f.log[k].sess \in 1..Len(sessions)
                     /\ sessions[f.log[k].sess] = t
                     /\ f.log[k].sess = f.server
          /\ Cardinality({x \in 1..Len(sessions) : sessions[x] = t}) <= 1
    /\ \A t, u \in Tasks :
          (t # u /\ FrameOf(t).server # 0) => FrameOf(t).server # FrameOf(u).server

\* C16: send_email_async runs the blocking send sequence and its caller gets
\* the result or the failure of that run; calls that run at the same time
\* each issue their commands on the session they opened themselves; no call
\* changes the configuration.
C16_AsyncSendAndExclusiveSessions ==
    /\ [](AsyncResolvesAsBlocking /\ SessionsExclusive)
    /\ [][cfg' = cfg]_vars

C16_Witness ==
    /\ sessions = <<2, 1>>
    /\ FrameOf(1).op = "send_async" /\ FrameOf(1).pc = "resolved"
    /\ FrameOf(1).retval.outcome = "raise"
    /\ FrameOf(2).op = "imap" /\ FrameOf(2).pc = "done"
    /\ FrameOf(2).outcome = "return" /\ FrameOf(2).retval # <<>>
    /\ FrameOf(1).server = 2 /\ FrameOf(2).server = 1

====
